---- MODULE Spec2Model ----
(***************************************************************************)
(* make_presets.py: the RIFF/WAVE chunk locator, the fmt / smpl / data     *)
(* decoders, the metadata mapper and the batch loop of process_directory,  *)
(* modelled on byte streams.  A byte is a number in 0..255, a stream is a  *)
(* sequence of bytes and a stream position counts bytes from 0.            *)
(***************************************************************************)
EXTENDS Integers, Sequences, FiniteSets, TLC

(***************************************************************************)
(* Bounds of the model.                                                    *)
(***************************************************************************)
\* longest chunk list of a file of the single-file specification
MaxChunks == 3
\* longest directory listing of the batch specification
MaxFiles == 3
\* longest chunk list of a file of the fair (termination) specification
MaxLiveChunks == 2

(***************************************************************************)
(* Program constants.                                                      *)
(***************************************************************************)
DefaultSampleRate == 44100
DefaultRootKey == 60
RiffHeaderLen == 12
ChunkHeaderLen == 8
FmtMinSize == 16
SmplMinSize == 36
LoopRecordLen == 24

(***************************************************************************)
(* Byte strings.                                                           *)
(***************************************************************************)
RIFF == <<82, 73, 70, 70>>
WAVE == <<87, 65, 86, 69>>
FMT  == <<102, 109, 116, 32>>
SMPL == <<115, 109, 112, 108>>
DATA == <<100, 97, 116, 97>>
LIST == <<76, 73, 83, 84>>

None == <<>>
Some(x) == <<x>>

Min(a, b) == IF a < b THEN a ELSE b
Max(a, b) == IF a > b THEN a ELSE b

\* python's f.read(n) at position p: the bytes that are there, at most n
Read(s, p, n) == SubSeq(s, p + 1, Min(p + n, Len(s)))

\* struct.unpack("<I", b) and struct.unpack("<H", b): little endian
U32(b) == b[1] + 256 * b[2] + 65536 * b[3] + 16777216 * b[4]
U16(b) == b[1] + 256 * b[2]

(***************************************************************************)
(* Input files.  A file is written down as the list of its chunks, each    *)
(* with its declared length and the values of its fields; Bytes(file) is   *)
(* the byte stream on disk.  Declared lengths below the minimum, loop      *)
(* counts that disagree with the declared length, and streams cut short    *)
(* are all part of the input set.                                          *)
(***************************************************************************)
LE32(n) == <<n % 256, (n \div 256) % 256, (n \div 65536) % 256, (n \div 16777216) % 256>>
LE16(n) == <<n % 256, (n \div 256) % 256>>

\* v = <<channels, bits per sample, sample rate>>
FmtChunk(size, ch, bits, rate) ==
    [tag |-> FMT, size |-> size, v |-> <<ch, bits, rate>>]
\* v = <<root key, loop count field, the <<start, end>> of the records present>>
SmplChunk(size, key, n, recs) ==
    [tag |-> SMPL, size |-> size, v |-> <<key, n, recs>>]
PlainChunk(tag, size) ==
    [tag |-> tag, size |-> size, v |-> <<>>]

RECURSIVE LoopBytes(_)
LoopBytes(recs) ==
    IF recs = <<>> THEN <<>>
    ELSE LE32(7) \o LE32(0) \o LE32(recs[1][1]) \o LE32(recs[1][2])
         \o LE32(0) \o LE32(0) \o LoopBytes(Tail(recs))

Fields(c) ==
    IF c.tag = FMT THEN
        LE16(1) \o LE16(c.v[1]) \o LE32(c.v[3])
        \o LE32(c.v[3] * ((c.v[1] * c.v[2]) \div 8)) \o LE16((c.v[1] * c.v[2]) \div 8)
        \o LE16(c.v[2])
    ELSE IF c.tag = SMPL THEN
        LE32(0) \o LE32(0) \o LE32(22675) \o LE32(c.v[1]) \o LE32(0) \o LE32(0)
        \o LE32(0) \o LE32(c.v[2]) \o LE32(0) \o LoopBytes(c.v[3])
    ELSE <<>>

\* the declared number of data bytes (fields first, then filler) and the pad byte
Body(c) ==
    LET e == Fields(c)
    IN  [i \in 1..(c.size + (c.size % 2)) |->
            IF i <= Len(e) /\ i <= c.size THEN e[i]
            ELSE IF i <= c.size THEN 1 ELSE 0]

ChunkBytes(c) == c.tag \o LE32(c.size) \o Body(c)

RECURSIVE Concat(_)
Concat(cs) == IF cs = <<>> THEN <<>> ELSE ChunkBytes(cs[1]) \o Concat(Tail(cs))

HeaderBytes(hdr) ==
    CASE hdr = "ok"      -> RIFF \o LE32(4) \o WAVE
      [] hdr = "notriff" -> <<82, 73, 70, 88>> \o LE32(4) \o WAVE
      [] hdr = "notwave" -> RIFF \o LE32(4) \o <<65, 86, 73, 32>>

Bytes(file) ==
    LET all == HeaderBytes(file.hdr) \o Concat(file.chunks)
    IN  SubSeq(all, 1, Len(all) - Min(file.cut, Len(all)))

F1 == FmtChunk(16, 2, 16, 22050)
F2 == FmtChunk(18, 2, 4, 11025)
F3 == FmtChunk(16, 1, 4, 32000)
F4 == FmtChunk(14, 1, 8, 22050)
S0 == SmplChunk(36, 48, 0, <<>>)
S2 == SmplChunk(84, 72, 2, <<<<5, 9>>, <<20, 30>>>>)
S3 == SmplChunk(64, 36, 1, <<<<3, 11>>>>)
S4 == SmplChunk(20, 60, 0, <<>>)
S5 == SmplChunk(60, 50, 1000, <<<<2, 4>>>>)
S6 == SmplChunk(60, 65, 2, <<<<6, 8>>>>)
D10 == PlainChunk(DATA, 10)
D15 == PlainChunk(DATA, 15)
Z0 == PlainChunk(LIST, 0)

Chunks == {F1, F2, F3, F4, S0, S2, S3, S4, S5, S6, D10, D15, Z0}
Cuts == {0, 3, 13}

RECURSIVE SeqsUpTo(_, _)
SeqsUpTo(S, n) ==
    IF n = 0 THEN {<<>>}
    ELSE LET shorter == SeqsUpTo(S, n - 1)
         IN  shorter \cup {Append(q, x) : q \in {r \in shorter : Len(r) = n - 1}, x \in S}

\* the chunks of the files of the fair specification
LiveChunks == {F1, S2, S5, S6, D15, Z0}

FilesUpTo(C, n) ==
    {[hdr |-> "ok", chunks |-> cs, cut |-> k] : cs \in SeqsUpTo(C, n), k \in Cuts}
    \cup {[hdr |-> h, chunks |-> cs, cut |-> 0] :
            h \in {"notriff", "notwave"}, cs \in SeqsUpTo(C, 1)}

Files == FilesUpTo(Chunks, MaxChunks)
LiveFiles == FilesUpTo(LiveChunks, MaxLiveChunks)

\* the files of the batch specification: one per outcome of a file
BatchFiles ==
    { [hdr |-> "ok", chunks |-> <<F1, D10>>, cut |-> 0],
      [hdr |-> "ok", chunks |-> <<D15, S2, F2>>, cut |-> 0],
      [hdr |-> "ok", chunks |-> <<S3>>, cut |-> 0],
      [hdr |-> "notriff", chunks |-> <<F1, D10>>, cut |-> 0],
      [hdr |-> "ok", chunks |-> <<F4, D10>>, cut |-> 0],
      [hdr |-> "ok", chunks |-> <<F1, S2>>, cut |-> 13] }

(***************************************************************************)
(* State.                                                                  *)
(*   dir            sorted(wav_dir.glob("*.wav")): the files, in order     *)
(*   stream         the bytes of the file that is open                     *)
(*   idx            number of files the for loop has finished with         *)
(*   pc             where the program is                                   *)
(*   pos            f.tell() of the open handle                            *)
(*   fourcc         the tag the running find_chunk looks for               *)
(*   found          (pos, size) as find_chunk returned it to its caller    *)
(*   loops, midi_unity, num_loops   locals of read_smpl_metadata           *)
(*   fmt_meta, smpl_meta, sample_length   locals of process_directory      *)
(*   err            the exception in flight                                *)
(*   outfiles       the .dspreset files written, by position in dir        *)
(*   stderr         the "Error processing" lines, in order                 *)
(***************************************************************************)
VARIABLES dir, stream, idx, pc, pos, fourcc, found, loops, midi_unity, num_loops,
          fmt_meta, smpl_meta, sample_length, err, outfiles, stderr

vars == <<dir, stream, idx, pc, pos, fourcc, found, loops, midi_unity, num_loops,
          fmt_meta, smpl_meta, sample_length, err, outfiles, stderr>>

NoErr == [kind |-> "none", msg |-> ""]
NotRiffWave == [kind |-> "ValueError", msg |-> "Not a valid RIFF/WAVE file"]
FmtTooSmall == [kind |-> "ValueError", msg |-> "fmt chunk too small"]
SmplTooSmall == [kind |-> "ValueError", msg |-> "smpl chunk too small"]
EndOfFile == [kind |-> "EOFError", msg |-> "Unexpected end of file while reading u32"]
UnpackError == [kind |-> "struct.error", msg |-> "unpack requires a buffer of 16 bytes"]

CurFile == dir[idx + 1]

(***************************************************************************)
(* read_u32le, called k times in a row from position p: the values read,   *)
(* the position reached, and whether a read came up short (EOFError).      *)
(***************************************************************************)
RECURSIVE ReadU32sFrom(_, _, _, _)
ReadU32sFrom(s, p, k, vals) ==
    IF k = 0 THEN [ok |-> TRUE, vals |-> vals, pos |-> p]
    ELSE LET data == Read(s, p, 4)
         IN  IF Len(data) # 4 THEN [ok |-> FALSE, vals |-> vals, pos |-> p + Len(data)]
             ELSE ReadU32sFrom(s, p + 4, k - 1, Append(vals, U32(data)))

ReadU32s(s, p, k) == ReadU32sFrom(s, p, k, <<>>)

\* variant: eight header words, sampler_data left unread
ReadSmplHeaderShort(s, p) == ReadU32s(s, p, 8)
\* the nine header words of the smpl chunk
ReadSmplHeader(s, p) == ReadU32s(s, p, 9)

\* the six words of one loop record
ReadLoopRecord(s, p) == ReadU32s(s, p, 6)

\* variant: no seek, the scan starts where the stream stands
FindSeekNone(p) == p
\* f.seek(0) at the top of find_chunk
FindSeek(p) == 0

\* variant: the pad byte forgotten
SkipNoPad(size) == size
\* variant: the declared length taken to include the 8 byte chunk header
SkipLessHeader(size) == size + (size % 2) - ChunkHeaderLen
\* skip = size + (size & 1)
Skip(size) == size + (size % 2)

\* num_channels * bits_per_sample // 8
BytesPerFrame(num_channels, bits_per_sample) ==
    (num_channels * bits_per_sample) \div 8

\* variant: a partial trailing frame counted
FrameCountRounded(size, bytes_per_frame) ==
    (size + bytes_per_frame - 1) \div bytes_per_frame
\* size // bytes_per_frame
FrameCount(size, bytes_per_frame) == size \div bytes_per_frame

\* the call made after a decoder returns, and the return address of find_chunk
ReturnTo(t) ==
    CASE t = FMT  -> "fmt_decode"
      [] t = SMPL -> "smpl_header"
      [] t = DATA -> "length_calc"

(***************************************************************************)
(* make_preset_text: the values put into the replacement map.              *)
(***************************************************************************)
\* variant: no floor at 0
SampleEndUnclamped(len) == len - 1
\* max(sample_length - 1, 0)
SampleEnd(len) == Max(len - 1, 0)

\* variant: the last loop record
LastLoop(ls) == ls[Len(ls)]
\* smpl_meta["loops"][0]
FirstLoop(ls) == ls[1]

\* variant: no fallback to 60
RootKeyNoDefault(meta) == IF meta # None THEN meta[1].root_key ELSE 0
\* smpl_meta["root_key"], 60 without smpl chunk
RootKey(meta) == IF meta # None THEN meta[1].root_key ELSE DefaultRootKey

PresetFields(fmt, smpl, len) ==
    LET length == IF len = None THEN 0 ELSE len[1]
        looped == smpl # None /\ smpl[1].loops # <<>>
    IN  [root_key      |-> RootKey(smpl),
         loop_start    |-> IF looped THEN FirstLoop(smpl[1].loops).start ELSE 0,
         loop_end      |-> IF looped THEN FirstLoop(smpl[1].loops).end ELSE 0,
         has_loop      |-> IF looped THEN "true" ELSE "false",
         sample_rate   |-> IF fmt # None THEN fmt[1].sample_rate ELSE DefaultSampleRate,
         sample_length |-> length,
         sample_start  |-> 0,
         sample_end    |-> SampleEnd(length)]

(***************************************************************************)
(* The except clause of process_directory: what it leaves in out_dir.      *)
(***************************************************************************)
\* variant: the output is written in the except clause too
WriteAnyway(outs, k, fields) == outs \cup {[k |-> k, fields |-> fields]}
\* the except clause only prints
ExceptOutput(outs, k, fields) == outs

(***************************************************************************)
(* Initial states.                                                         *)
(***************************************************************************)
Init ==
    /\ dir = <<>>
    /\ stream = <<>>
    /\ idx = 0
    /\ pc = "list_dir"
    /\ pos = 0
    /\ fourcc = FMT
    /\ found = None
    /\ loops = <<>>
    /\ midi_unity = 0
    /\ num_loops = 0
    /\ fmt_meta = None
    /\ smpl_meta = None
    /\ sample_length = None
    /\ err = NoErr
    /\ outfiles = {}
    /\ stderr = <<>>

(***************************************************************************)
(* Actions.                                                                *)
(***************************************************************************)
\* an exception leaves the with block (the handle is closed) for the except clause
Raise(e) ==
    /\ err' = e
    /\ pc' = "except"
    /\ pos' = 0
    /\ found' = None
    /\ loops' = <<>>
    /\ midi_unity' = 0
    /\ num_loops' = 0

\* sorted(wav_dir.glob("*.wav")): the directory holds one of the listings in D
ListDir(D) ==
    /\ pc = "list_dir"
    /\ \E d \in D : dir' = d
    /\ pc' = "next_file"
    /\ UNCHANGED <<stream, idx, pos, fourcc, found, loops, midi_unity, num_loops, fmt_meta,
                   smpl_meta, sample_length, err, outfiles, stderr>>

\* for wav_path in ...: with wav_path.open("rb") as f: read_fmt_metadata(f)
OpenFile ==
    /\ pc = "next_file"
    /\ idx < Len(dir)
    /\ pc' = "find_chunk"
    /\ pos' = 0
    /\ fourcc' = FMT
    /\ stream' = Bytes(CurFile)
    /\ UNCHANGED <<dir, idx, found, loops, midi_unity, num_loops, fmt_meta, smpl_meta,
                   sample_length, err, outfiles, stderr>>

\* the for loop runs out of files
Finish ==
    /\ pc = "next_file"
    /\ idx = Len(dir)
    /\ pc' = "done"
    /\ UNCHANGED <<dir, stream, idx, pos, fourcc, found, loops, midi_unity, num_loops, fmt_meta,
                   smpl_meta, sample_length, err, outfiles, stderr>>

\* find_chunk: seek(0), read and check the 12 byte RIFF header
FindHeader ==
    /\ pc = "find_chunk"
    /\ LET header == Read(stream, FindSeek(pos), RiffHeaderLen)
       IN  IF \/ Len(header) # RiffHeaderLen
              \/ SubSeq(header, 1, 4) # RIFF
              \/ SubSeq(header, 9, 12) # WAVE
           THEN Raise(NotRiffWave)
           ELSE /\ pos' = FindSeek(pos) + RiffHeaderLen
                /\ pc' = "scan"
                /\ UNCHANGED <<found, loops, midi_unity, num_loops, err>>
    /\ UNCHANGED <<dir, stream, idx, fourcc, fmt_meta, smpl_meta, sample_length, outfiles, stderr>>

\* find_chunk: one iteration of the while loop
ScanStep ==
    /\ pc = "scan"
    /\ LET hdr == Read(stream, pos, ChunkHeaderLen)
       IN  IF Len(hdr) < ChunkHeaderLen
           THEN /\ found' = None
                /\ pos' = pos + Len(hdr)
                /\ pc' = ReturnTo(fourcc)
           ELSE LET chunk_id == SubSeq(hdr, 1, 4)
                    size == U32(SubSeq(hdr, 5, 8))
                IN  IF chunk_id = fourcc
                    THEN /\ found' = Some([pos |-> pos + ChunkHeaderLen, size |-> size])
                         /\ pos' = pos + ChunkHeaderLen
                         /\ pc' = ReturnTo(fourcc)
                    ELSE /\ found' = found
                         /\ pos' = pos + ChunkHeaderLen + Skip(size)
                         /\ pc' = "scan"
    /\ UNCHANGED <<dir, stream, idx, fourcc, loops, midi_unity, num_loops, fmt_meta, smpl_meta,
                   sample_length, err, outfiles, stderr>>

\* read_fmt_metadata after find_chunk returned, then the call of read_smpl_metadata
FmtDecode ==
    /\ pc = "fmt_decode"
    /\ IF found = None
       THEN /\ fmt_meta' = None
            /\ pc' = "find_chunk"
            /\ fourcc' = SMPL
            /\ UNCHANGED <<pos, found, loops, midi_unity, num_loops, err>>
       ELSE IF found[1].size < FmtMinSize
       THEN Raise(FmtTooSmall) /\ UNCHANGED <<fmt_meta, fourcc>>
       ELSE LET fmt_data == Read(stream, found[1].pos, FmtMinSize)
            IN  IF Len(fmt_data) # FmtMinSize
                THEN Raise(UnpackError) /\ UNCHANGED <<fmt_meta, fourcc>>
                ELSE /\ fmt_meta' = Some([audio_format    |-> U16(SubSeq(fmt_data, 1, 2)),
                                          num_channels    |-> U16(SubSeq(fmt_data, 3, 4)),
                                          sample_rate     |-> U32(SubSeq(fmt_data, 5, 8)),
                                          bits_per_sample |-> U16(SubSeq(fmt_data, 15, 16))])
                     /\ pos' = found[1].pos + FmtMinSize
                     /\ found' = None
                     /\ pc' = "find_chunk"
                     /\ fourcc' = SMPL
                     /\ UNCHANGED <<loops, midi_unity, num_loops, err>>
    /\ UNCHANGED <<dir, stream, idx, smpl_meta, sample_length, outfiles, stderr>>

\* read_smpl_metadata after find_chunk returned: the size check and the nine header words
SmplHeader ==
    /\ pc = "smpl_header"
    /\ IF found = None
       THEN /\ smpl_meta' = None
            /\ pc' = "length_entry"
            /\ UNCHANGED <<pos, found, loops, midi_unity, num_loops, err>>
       ELSE IF found[1].size < SmplMinSize
       THEN Raise(SmplTooSmall) /\ UNCHANGED smpl_meta
       ELSE LET r == ReadSmplHeader(stream, found[1].pos)
            IN  IF ~r.ok
                THEN Raise(EndOfFile) /\ UNCHANGED smpl_meta
                ELSE /\ midi_unity' = r.vals[4]
                     /\ num_loops' = r.vals[8]
                     /\ loops' = <<>>
                     /\ pos' = r.pos
                     /\ pc' = "smpl_loop"
                     /\ UNCHANGED <<found, smpl_meta, err>>
    /\ UNCHANGED <<dir, stream, idx, fourcc, fmt_meta, sample_length, outfiles, stderr>>

\* read_smpl_metadata: one iteration of for _ in range(num_loops)
SmplLoopStep ==
    /\ pc = "smpl_loop"
    /\ Len(loops) < num_loops
    /\ LET r == ReadLoopRecord(stream, pos)
       IN  IF ~r.ok
           THEN Raise(EndOfFile)
           ELSE /\ loops' = Append(loops, [cue_id |-> r.vals[1], type |-> r.vals[2],
                                           start |-> r.vals[3], end |-> r.vals[4],
                                           fraction |-> r.vals[5], play_count |-> r.vals[6]])
                /\ pos' = r.pos
                /\ UNCHANGED <<pc, found, midi_unity, num_loops, err>>
    /\ UNCHANGED <<dir, stream, idx, fourcc, fmt_meta, smpl_meta, sample_length, outfiles, stderr>>

\* read_smpl_metadata: the loop is over, return {"root_key", "loops"}
SmplReturn ==
    /\ pc = "smpl_loop"
    /\ Len(loops) >= num_loops
    /\ smpl_meta' = Some([root_key |-> midi_unity, loops |-> loops])
    /\ pc' = "length_entry"
    /\ found' = None
    /\ loops' = <<>>
    /\ midi_unity' = 0
    /\ num_loops' = 0
    /\ UNCHANGED <<dir, stream, idx, pos, fourcc, fmt_meta, sample_length, err, outfiles, stderr>>

\* read_sample_length: if fmt_meta is None: return None, else find_chunk(f, b"data")
LengthEntry ==
    /\ pc = "length_entry"
    /\ IF fmt_meta = None
       THEN /\ sample_length' = None
            /\ pc' = "make_preset"
            /\ pos' = 0
            /\ UNCHANGED fourcc
       ELSE /\ pc' = "find_chunk"
            /\ fourcc' = DATA
            /\ UNCHANGED <<sample_length, pos>>
    /\ UNCHANGED <<dir, stream, idx, found, loops, midi_unity, num_loops, fmt_meta, smpl_meta,
                   err, outfiles, stderr>>

\* read_sample_length after find_chunk returned; the with block ends
LengthCalc ==
    /\ pc = "length_calc"
    /\ sample_length' =
          IF found = None THEN None
          ELSE LET bytes_per_frame ==
                       BytesPerFrame(fmt_meta[1].num_channels, fmt_meta[1].bits_per_sample)
               IN  IF bytes_per_frame = 0 THEN None
                   ELSE Some(FrameCount(found[1].size, bytes_per_frame))
    /\ pc' = "make_preset"
    /\ pos' = 0
    /\ found' = None
    /\ UNCHANGED <<dir, stream, idx, fourcc, loops, midi_unity, num_loops, fmt_meta, smpl_meta,
                   err, outfiles, stderr>>

\* make_preset_text and out_path.write_text
WritePreset ==
    /\ pc = "make_preset"
    /\ outfiles' = outfiles \cup
          {[k |-> idx + 1, fields |-> PresetFields(fmt_meta, smpl_meta, sample_length)]}
    /\ idx' = idx + 1
    /\ pc' = "next_file"
    /\ UNCHANGED <<dir, stream, pos, fourcc, found, loops, midi_unity, num_loops, fmt_meta,
                   smpl_meta, sample_length, err, stderr>>

\* except Exception as e: print(..., file=sys.stderr)
Except ==
    /\ pc = "except"
    /\ stderr' = Append(stderr, [k |-> idx + 1, e |-> err])
    /\ outfiles' = ExceptOutput(outfiles, idx + 1,
                                PresetFields(fmt_meta, smpl_meta, sample_length))
    /\ err' = NoErr
    /\ idx' = idx + 1
    /\ pc' = "next_file"
    /\ UNCHANGED <<dir, stream, pos, fourcc, found, loops, midi_unity, num_loops, fmt_meta,
                   smpl_meta, sample_length>>

\* the steps of process_directory after the listing
Run ==
    \/ OpenFile
    \/ Finish
    \/ FindHeader
    \/ ScanStep
    \/ FmtDecode
    \/ SmplHeader
    \/ SmplLoopStep
    \/ SmplReturn
    \/ LengthEntry
    \/ LengthCalc
    \/ WritePreset
    \/ Except

\* a directory with one file, any of Files
Next == ListDir({<<f>> : f \in Files}) \/ Run
\* a directory with up to MaxFiles files, each any of BatchFiles
NextBatch == ListDir(SeqsUpTo(BatchFiles, MaxFiles)) \/ Run
\* a directory with one file, any of LiveFiles
NextLive == ListDir({<<f>> : f \in LiveFiles}) \/ Run

Spec == Init /\ [][Next]_vars
SpecBatch == Init /\ [][NextBatch]_vars
\* the program is one sequential thread: whatever step is enabled is taken
SpecLive == Init /\ [][NextLive]_vars /\ WF_vars(NextLive)

(***************************************************************************)
(* What a file holds, read off its chunk list (not off its bytes): the     *)
(* layout the format prescribes.                                           *)
(***************************************************************************)
Even(n) == IF n % 2 = 0 THEN n ELSE n + 1

RECURSIVE LayoutLen(_)
LayoutLen(cs) ==
    IF cs = <<>> THEN 0 ELSE ChunkHeaderLen + Even(cs[1].size) + LayoutLen(Tail(cs))

\* offset of the data of chunk k
DataOffset(cs, k) == RiffHeaderLen + LayoutLen(SubSeq(cs, 1, k - 1)) + ChunkHeaderLen

StreamLen(file) == Max(0, RiffHeaderLen + LayoutLen(file.chunks) - file.cut)

\* index of the first chunk with this tag, 0 if there is none
FirstWith(cs, t) ==
    IF \E k \in 1..Len(cs) : cs[k].tag = t
    THEN CHOOSE k \in 1..Len(cs) : cs[k].tag = t /\ \A j \in 1..(k - 1) : cs[j].tag # t
    ELSE 0

HasChunk(file, t) == FirstWith(file.chunks, t) # 0
FirstChunk(file, t) == file.chunks[FirstWith(file.chunks, t)]

HeaderValid(file) == file.hdr = "ok" /\ StreamLen(file) >= RiffHeaderLen
WellFormed(file) == file.hdr = "ok" /\ file.cut = 0

\* the first chunk with this tag in a well formed file
FirstInFile(file, t) ==
    LET k == FirstWith(file.chunks, t)
    IN  IF k = 0 THEN None
        ELSE Some([pos |-> DataOffset(file.chunks, k), size |-> file.chunks[k].size])

\* the same when the stream may be cut short: the chunk counts if its 8 byte header is there
FirstInStream(file, t) ==
    LET k == FirstWith(file.chunks, t)
    IN  IF k = 0 \/ DataOffset(file.chunks, k) > StreamLen(file) THEN None
        ELSE Some([pos |-> DataOffset(file.chunks, k), size |-> file.chunks[k].size])

Returned == pc \in {"fmt_decode", "smpl_header", "length_calc"}

Written(k) == \E o \in outfiles : o.k = k
Failed(k) == \E i \in 1..Len(stderr) : stderr[i].k = k
FieldsOf(k) == (CHOOSE o \in outfiles : o.k = k).fields
ErrorOf(k) == stderr[CHOOSE i \in 1..Len(stderr) : stderr[i].k = k].e

(***************************************************************************)
(* C1: in a well formed file (valid header, every chunk with its declared  *)
(* number of bytes and its pad byte) find_chunk returns the data offset    *)
(* and declared length of the first chunk with the tag, and (None, None)   *)
(* when no chunk has it: chunks after an odd-length chunk are found at     *)
(* their offset, and later chunks with the same tag are ignored.           *)
(***************************************************************************)
FindChunkFindsFirst ==
    (Returned /\ WellFormed(CurFile)) => found = FirstInFile(CurFile, fourcc)

\* fmt found behind a 15 byte data chunk, with a second fmt chunk after it
FindChunkFindsFirst_Witness ==
    /\ pc = "fmt_decode"
    /\ CurFile = [hdr |-> "ok", chunks |-> <<D15, F1, F2>>, cut |-> 0]
    /\ found = Some([pos |-> 44, size |-> 16])

(***************************************************************************)
(* C2: every file of the directory is processed, in order; a file gets     *)
(* either an output file or an error line, never both, and a file with an  *)
(* invalid header gets the error line; the outcome of a file does not      *)
(* depend on its place in the directory, so it is the outcome it has as    *)
(* the first file.                                                         *)
(***************************************************************************)
Outcome(k) ==
    IF Written(k) THEN [written |-> TRUE, fields |-> Some(FieldsOf(k)), e |-> NoErr]
    ELSE [written |-> FALSE, fields |-> None, e |-> ErrorOf(k)]

BatchIsolation ==
    /\ \A o \in outfiles : o.k \in 1..idx
    /\ \A i \in 1..Len(stderr) : stderr[i].k \in 1..idx
    /\ \A i, j \in 1..Len(stderr) : i < j => stderr[i].k < stderr[j].k
    /\ \A o1, o2 \in outfiles : o1.k = o2.k => o1 = o2
    /\ \A k \in 1..idx : Written(k) <=> ~Failed(k)
    /\ \A k \in 1..idx : dir[k].hdr # "ok" => Failed(k) /\ ErrorOf(k) = NotRiffWave
    /\ \A j, k \in 1..idx : dir[j] = dir[k] => Outcome(j) = Outcome(k)
    /\ pc = "done" => idx = Len(dir)

\* a good file, a failing file, and the good file again
BatchIsolation_Witness ==
    /\ pc = "done"
    /\ Len(dir) = 3
    /\ dir[1] = dir[3]
    /\ Written(1) /\ Failed(2) /\ Written(3)
    /\ dir[2].hdr = "ok"
    /\ FieldsOf(3).has_loop = "true"

(***************************************************************************)
(* C3 as stated: a file with a valid header and no fmt chunk never fails,  *)
(* and its fields are sample rate 44100, sample length, start and end 0.   *)
(***************************************************************************)
NoFmtDefaults(f) ==
    /\ f.sample_rate = DefaultSampleRate
    /\ f.sample_length = 0
    /\ f.sample_start = 0
    /\ f.sample_end = 0

NoFmtNeverFails ==
    (idx = 1 /\ HeaderValid(dir[1]) /\ ~HasChunk(dir[1], FMT))
        => (Written(1) /\ NoFmtDefaults(FieldsOf(1)))

(***************************************************************************)
(* C3 as amended: a file with a valid header and no fmt chunk fails only   *)
(* when it has a smpl chunk and the smpl decode fails (chunk too small or  *)
(* end of stream); otherwise, whatever data or smpl chunk it has, the      *)
(* fields are sample rate 44100, sample length 0, start 0 and end 0.       *)
(***************************************************************************)
NoFmtFallbacks ==
    (idx = 1 /\ HeaderValid(dir[1]) /\ ~HasChunk(dir[1], FMT))
        => \/ Written(1) /\ NoFmtDefaults(FieldsOf(1))
           \/ /\ Failed(1)
              /\ HasChunk(dir[1], SMPL)
              /\ ErrorOf(1) \in {SmplTooSmall, EndOfFile}

\* no fmt chunk, but a data chunk and a smpl chunk with loops
NoFmtFallbacks_Witness ==
    /\ idx = 1
    /\ dir[1] = [hdr |-> "ok", chunks |-> <<D10, S2>>, cut |-> 0]
    /\ Written(1)
    /\ FieldsOf(1).sample_rate = 44100
    /\ FieldsOf(1).has_loop = "true"

(***************************************************************************)
(* C4: a valid file with a fmt chunk (every fmt chunk of at least 16       *)
(* bytes) and a data chunk and no smpl chunk is written with root key 60,  *)
(* no loop, loop start and end 0, and the sample rate of its fmt chunk.    *)
(***************************************************************************)
ValidNoSmpl(file) ==
    /\ WellFormed(file)
    /\ HasChunk(file, FMT)
    /\ \A k \in 1..Len(file.chunks) :
          file.chunks[k].tag = FMT => file.chunks[k].size >= FmtMinSize
    /\ HasChunk(file, DATA)
    /\ ~HasChunk(file, SMPL)

NoSmplDefaults ==
    (idx = 1 /\ ValidNoSmpl(dir[1]))
        => /\ Written(1)
           /\ FieldsOf(1).root_key = 60
           /\ FieldsOf(1).has_loop = "false"
           /\ FieldsOf(1).loop_start = 0
           /\ FieldsOf(1).loop_end = 0
           /\ FieldsOf(1).sample_rate = FirstChunk(dir[1], FMT).v[3]

NoSmplDefaults_Witness ==
    /\ idx = 1
    /\ dir[1] = [hdr |-> "ok", chunks |-> <<F2, D10>>, cut |-> 0]
    /\ Written(1)
    /\ FieldsOf(1).sample_rate = 11025
    /\ FieldsOf(1).root_key = 60

(***************************************************************************)
(* C5: with C channels, B bits per sample and a data chunk of declared     *)
(* length D, read_sample_length returns None when (C * B) div 8 is 0 and   *)
(* else D div ((C * B) div 8), the floor, whatever number of data bytes    *)
(* the stream really holds; and None without fmt or data chunk.            *)
(***************************************************************************)
ExpectedLength(file) ==
    IF FirstInStream(file, FMT) = None \/ FirstInStream(file, DATA) = None THEN None
    ELSE LET C == FirstChunk(file, FMT).v[1]
             B == FirstChunk(file, FMT).v[2]
             D == FirstChunk(file, DATA).size
             frame == (C * B) \div 8
         IN  IF frame = 0 THEN None
             ELSE Some(CHOOSE q \in 0..D : q * frame <= D /\ D < (q + 1) * frame)

SampleLengthIsFloor ==
    pc = "make_preset" => sample_length = ExpectedLength(CurFile)

\* C = 2, B = 16, D = 10 declared with 7 bytes present: 2 frames
SampleLengthIsFloor_Witness ==
    /\ pc = "make_preset"
    /\ CurFile = [hdr |-> "ok", chunks |-> <<F1, D10>>, cut |-> 3]
    /\ sample_length = Some(2)

(***************************************************************************)
(* C6 as stated: when read_smpl_metadata returns its result, the stream    *)
(* position is the end of the smpl chunk, data offset + declared length.   *)
(***************************************************************************)
SmplReturned == pc = "length_entry" /\ FirstInStream(CurFile, SMPL) # None

SmplEndsAtChunkEnd ==
    SmplReturned =>
        pos = FirstInStream(CurFile, SMPL)[1].pos + FirstInStream(CurFile, SMPL)[1].size

(***************************************************************************)
(* C6 as amended: when read_smpl_metadata returns its result for a chunk   *)
(* with loop count n, it has read n loop records and the stream position   *)
(* is data offset + 36 + 24 n; that is the end of the chunk exactly when   *)
(* the declared length is 36 + 24 n.                                       *)
(***************************************************************************)
SmplConsumesHeaderAndLoops ==
    SmplReturned =>
        LET c == FirstChunk(CurFile, SMPL)
            at == FirstInStream(CurFile, SMPL)[1]
        IN  /\ Len(smpl_meta[1].loops) = c.v[2]
            /\ pos = at.pos + SmplMinSize + LoopRecordLen * c.v[2]
            /\ (pos = at.pos + at.size) <=> (c.size = SmplMinSize + LoopRecordLen * c.v[2])

\* loop count 2: both records consumed, the position is the end of the chunk
SmplConsumesHeaderAndLoops_Witness ==
    /\ SmplReturned
    /\ FirstChunk(CurFile, SMPL) = S2
    /\ Len(smpl_meta[1].loops) = 2
    /\ pos = FirstInStream(CurFile, SMPL)[1].pos + 84

(***************************************************************************)
(* C7: when the chunk's declared length is at or above the minimum but     *)
(* the stream ends before the fields to decode (16 bytes of fmt, the nine  *)
(* header words or the loop records of smpl), the file fails with the      *)
(* end-of-stream error.                                                    *)
(***************************************************************************)
FmtUnderRead(file) ==
    /\ HeaderValid(file)
    /\ FirstInStream(file, FMT) # None
    /\ FirstInStream(file, FMT)[1].size >= FmtMinSize
    /\ FirstInStream(file, FMT)[1].pos + FmtMinSize > StreamLen(file)

SmplUnderRead(file) ==
    /\ HeaderValid(file)
    /\ ~FmtUnderRead(file)
    /\ ~(FirstInStream(file, FMT) # None /\ FirstInStream(file, FMT)[1].size < FmtMinSize)
    /\ FirstInStream(file, SMPL) # None
    /\ FirstInStream(file, SMPL)[1].size >= SmplMinSize
    /\ FirstInStream(file, SMPL)[1].pos + SmplMinSize
          + LoopRecordLen * FirstChunk(file, SMPL).v[2] > StreamLen(file)

UnderReadIsEndOfStream ==
    (idx = 1 /\ (FmtUnderRead(dir[1]) \/ SmplUnderRead(dir[1])))
        => (Failed(1) /\ ~Written(1) /\ ErrorOf(1) = EndOfFile)

(***************************************************************************)
(* C8: what find_chunk returns depends on the bytes of the file and the    *)
(* tag alone, not on where the previous decoder left the stream: each of   *)
(* the three calls returns the first chunk with its tag whose header is    *)
(* in the stream, and raises the header error exactly for a file whose     *)
(* first 12 bytes are not a RIFF/WAVE header.                              *)
(***************************************************************************)
FindChunkReentrant ==
    /\ Returned => (HeaderValid(CurFile) /\ found = FirstInStream(CurFile, fourcc))
    /\ (pc = "except" /\ err = NotRiffWave) => ~HeaderValid(CurFile)
    /\ (pc = "scan" /\ pos = RiffHeaderLen) => HeaderValid(CurFile)

\* data found at 44 after the smpl decoder had read to the end of the stream
FindChunkReentrant_Witness ==
    /\ pc = "length_calc"
    /\ CurFile = [hdr |-> "ok", chunks |-> <<F1, D10, S2>>, cut |-> 0]
    /\ smpl_meta # None
    /\ found = Some([pos |-> 44, size |-> 10])

(***************************************************************************)
(* C9: for a decoded smpl chunk with loop count n, has-loop is true iff    *)
(* n >= 1; with n >= 1 loop start and end are those of the first loop      *)
(* record; with n = 0 they are 0; the root key is the chunk's MIDI unity   *)
(* note in both cases.                                                     *)
(***************************************************************************)
LoopFieldsFromFirstLoop ==
    (idx = 1 /\ Written(1) /\ FirstInStream(dir[1], SMPL) # None)
        => LET c == FirstChunk(dir[1], SMPL)
               f == FieldsOf(1)
           IN  /\ f.root_key = c.v[1]
               /\ (f.has_loop = "true") <=> (c.v[2] >= 1)
               /\ f.has_loop \in {"true", "false"}
               /\ c.v[2] >= 1 => (f.loop_start = c.v[3][1][1] /\ f.loop_end = c.v[3][1][2])
               /\ c.v[2] = 0 => (f.loop_start = 0 /\ f.loop_end = 0)

\* two loop records: the first one is used
LoopFieldsFromFirstLoop_Witness ==
    /\ idx = 1
    /\ Written(1)
    /\ FirstInStream(dir[1], SMPL) # None
    /\ FirstChunk(dir[1], SMPL) = S2
    /\ FieldsOf(1).loop_start = 5
    /\ FieldsOf(1).loop_end = 9
    /\ FieldsOf(1).root_key = 72

(***************************************************************************)
(* C10: the chunk scan and the loop-record loop always come to an end,     *)
(* whatever lengths and loop count the stream declares: an iteration of    *)
(* the scan that goes on to another moves the position forward by at       *)
(* least 8 bytes, the scan stops when fewer than 8 bytes can be read, and  *)
(* every file is finished with.                                            *)
(***************************************************************************)
ScanAndLoopTerminate ==
    /\ (pc = "scan") ~> (pc # "scan")
    /\ (pc = "smpl_loop") ~> (pc # "smpl_loop")
    /\ <>(pc = "done")
    /\ [][(pc = "scan" /\ pc' = "scan") => pos' >= pos + ChunkHeaderLen]_vars
    /\ [][(pc = "scan" /\ Len(stream) - pos < ChunkHeaderLen) => pc' # "scan"]_vars
    /\ [][(pc = "smpl_loop" /\ pc' = "smpl_loop") => Len(loops') = Len(loops) + 1]_vars

\* a scan that ended not-found behind the end of the stream (a length pointing past it)
ScanAndLoopTerminate_Witness ==
    /\ Returned
    /\ found = None
    /\ pos > Len(stream)
====
